---- MODULE Spec2Model ----
(***************************************************************************)
(* Model of the recipe API of biarkamimasak: the response parser           *)
(* RecipeRecommender.extract_recipe_parts (recommender.py), the token      *)
(* relay of the streaming calls (recommender.py, main.py) and the request  *)
(* handling of the endpoints (main.py).                                    *)
(*                                                                         *)
(* Strings are sequences of one-character strings, so that the string      *)
(* operations of the code (strip, replace, upper, split, the regular       *)
(* expressions) are computed character by character.                      *)
(***************************************************************************)
EXTENDS Integers, Sequences, FiniteSets, TLC

VARIABLES
    \* extract_recipe_parts: its argument, its locals and its position
    recipe_text, lines, idx, title, ingredients, instructions,
    cooking_time, difficulty, notes, current_section, pc,
    \* main.py at startup: whether the module-level recommender is bound
    recommender_defined,
    \* the streaming calls, one request per streaming endpoint:
    gen,        \* where generate() and the recommender's generator stand
    token,      \* the fragment the generator is yielding
    queue,      \* callback.queue
    done,       \* callback.done
    task,       \* the task of llm.agenerate
    produced,   \* the fragments the completion has produced so far
    sent,       \* the fragments the response has passed to the client
    client,     \* whether the client is still connected
    \* the endpoints of main.py:
    request,    \* the request being handled
    api_pc,     \* how far its handling has come
    log,        \* the requests handled so far, each with its outcome
    \* the detailed calls of the recommender:
    query,          \* the DetailedQuery of the request
    call,           \* which of the two detailed calls is made
    full_context,   \* the context built for the prompt
    prompt_pc       \* how far the call has come

parserVars == <<recipe_text, lines, idx, title, ingredients, instructions,
                cooking_time, difficulty, notes, current_section, pc>>

streamVars == <<gen, token, queue, done, task, produced, sent, client>>

apiVars == <<request, api_pc, log>>

promptVars == <<query, call, full_context, prompt_pc>>

vars == <<parserVars, recommender_defined, streamVars, apiVars, promptVars>>

----------------------------------------------------------------------------
(* Bounds of the model *)

\* most lines of a completion text
MaxLines == 3

\* most fragments a streamed completion produces
MaxFragments == 2

\* most requests the endpoints handle
MaxRequests == 2

----------------------------------------------------------------------------
(* Characters and the string operations of Python the code uses *)

LowerChars == <<"a","b","c","d","e","f","g","h","i","j","k","l","m",
                "n","o","p","q","r","s","t","u","v","w","x","y","z">>

UpperChars == <<"A","B","C","D","E","F","G","H","I","J","K","L","M",
                "N","O","P","Q","R","S","T","U","V","W","X","Y","Z">>

DigitChars == <<"0","1","2","3","4","5","6","7","8","9">>

Digits == {DigitChars[i] : i \in 1..10}

Char == {LowerChars[i] : i \in 1..26} \cup {UpperChars[i] : i \in 1..26}
        \cup Digits \cup {" ", "\n", "-", ".", ":", "*", "#", "'"}

\* Python's None, a value that is no string
None == <<"None">>

IsStr(s) == s \in Seq(Char)

IsStrList(l) == l \in Seq(Seq(Char))

UpperOf == [c \in Char |->
              IF \E i \in 1..26 : LowerChars[i] = c
                THEN UpperChars[CHOOSE i \in 1..26 : LowerChars[i] = c]
                ELSE c]

\* str.upper()
Upper(s) == [i \in 1..Len(s) |-> UpperOf[s[i]]]

\* the characters str.strip() and \s take for whitespace
IsSpace(c) == c \in {" ", "\n"}

RECURSIVE LStrip(_)
LStrip(s) == IF s # <<>> /\ IsSpace(Head(s)) THEN LStrip(Tail(s)) ELSE s

RECURSIVE RStrip(_)
RStrip(s) == IF s # <<>> /\ IsSpace(s[Len(s)])
               THEN RStrip(SubSeq(s, 1, Len(s) - 1))
               ELSE s

\* str.strip()
Strip(s) == RStrip(LStrip(s))

\* str.replace(c, '')
Remove(s, c) == SelectSeq(s, LAMBDA x : x # c)

\* needle in hay
Contains(hay, needle) ==
    \E i \in 1..(Len(hay) - Len(needle) + 1) :
        \A j \in 1..Len(needle) : hay[i + j - 1] = needle[j]

\* str.startswith
StartsWith(s, prefix) ==
    Len(s) >= Len(prefix) /\ \A j \in 1..Len(prefix) : s[j] = prefix[j]

\* str.split(sep) for a separator of one character
RECURSIVE Split(_, _)
Split(s, sep) ==
    IF \E i \in 1..Len(s) : s[i] = sep
      THEN LET i == CHOOSE i \in 1..Len(s) :
                        s[i] = sep /\ \A j \in 1..(i - 1) : s[j] # sep
           IN  <<SubSeq(s, 1, i - 1)>> \o Split(SubSeq(s, i + 1, Len(s)), sep)
      ELSE <<s>>

\* sep.join(parts)
RECURSIVE Join(_, _)
Join(parts, sep) ==
    IF parts = <<>> THEN <<>>
    ELSE IF Len(parts) = 1 THEN parts[1]
    ELSE parts[1] \o sep \o Join(Tail(parts), sep)

----------------------------------------------------------------------------
(* The section markers and the default values of extract_recipe_parts *)

M_TITLE == <<"T","I","T","L","E",":">>
M_INGREDIENTS == <<"I","N","G","R","E","D","I","E","N","T","S",":">>
M_INSTRUCTIONS == <<"I","N","S","T","R","U","C","T","I","O","N","S",":">>
M_COOKING_TIME == <<"C","O","O","K","I","N","G"," ","T","I","M","E",":">>
M_DIFFICULTY == <<"D","I","F","F","I","C","U","L","T","Y",":">>
M_NOTES == <<"N","O","T","E","S",":">>

DEFAULT_NOTES == <<"N","o"," ","a","d","d","i","t","i","o","n","a","l"," ",
                   "n","o","t","e","s",".">>
NOT_SPECIFIED == <<"N","o","t"," ","s","p","e","c","i","f","i","e","d">>

\* 'TITLE:' in line.upper(), and the same test for the other markers
HasMarker(line, marker) == Contains(Upper(line), marker)

\* re.sub(r'^MARKER\s*', '', line, flags=re.IGNORECASE): the marker is
\* removed, with the whitespace after it, only where the line starts with it
StripMarker(line, marker) ==
    IF StartsWith(Upper(line), marker)
      THEN LStrip(SubSeq(line, Len(marker) + 1, Len(line)))
      ELSE line

\* the if/elif chain that classifies a non-blank line
LineKind(line) ==
    IF HasMarker(line, M_TITLE) THEN "title"
    ELSE IF HasMarker(line, M_INGREDIENTS) THEN "ingredients"
    ELSE IF HasMarker(line, M_INSTRUCTIONS) THEN "instructions"
    ELSE IF HasMarker(line, M_COOKING_TIME) THEN "cooking_time"
    ELSE IF HasMarker(line, M_DIFFICULTY) THEN "difficulty"
    ELSE IF HasMarker(line, M_NOTES) THEN "notes"
    ELSE "unmarked"

\* any(section in line.upper() for section in [...]) of the ingredients branch
IngredientsFilter(line) ==
    \E m \in {M_TITLE, M_INSTRUCTIONS, M_COOKING_TIME, M_DIFFICULTY, M_NOTES} :
        HasMarker(line, m)

\* any(section in line.upper() for section in [...]) of the instructions branch
InstructionsFilter(line) ==
    \E m \in {M_TITLE, M_INGREDIENTS, M_COOKING_TIME, M_DIFFICULTY, M_NOTES} :
        HasMarker(line, m)

\* the ingredients branch: what is appended for a line, as a list of 0 or 1
\* entries
IngredientEntries(line) ==
    IF StartsWith(line, <<"-">>) THEN <<Strip(Remove(line, "-"))>>
    ELSE IF Strip(line) # <<>> /\ ~IngredientsFilter(line) THEN <<Strip(line)>>
    ELSE <<>>

\* the number of leading digits of s
RECURSIVE LeadingDigits(_)
LeadingDigits(s) ==
    IF s # <<>> /\ Head(s) \in Digits THEN 1 + LeadingDigits(Tail(s)) ELSE 0

\* re.match(r'^\d+\.\s*(.+)$', line): group(1), or None when there is no match.
\* The line has no newline, so '.' matches every character of it; \s* is
\* greedy and gives characters back only where (.+) would be left empty.
NumberedMatch(line) ==
    LET d    == LeadingDigits(line)
        rest == SubSeq(line, d + 2, Len(line))
    IN  IF d >= 1 /\ Len(line) >= d + 1 /\ line[d + 1] = "." /\ rest # <<>>
          THEN IF LStrip(rest) # <<>> THEN LStrip(rest)
               ELSE <<rest[Len(rest)]>>
          ELSE None

\* InstructionEntries with match.group(1) taken without the test of match
InstructionEntries_Unchecked(line) ==
    IF Strip(line) = <<>> THEN <<>> ELSE <<Strip(NumberedMatch(line))>>

\* the instructions branch: what is appended for a line
InstructionEntries(line) ==
    IF Strip(line) = <<>> THEN <<>>
    ELSE IF NumberedMatch(line) # None THEN <<Strip(NumberedMatch(line))>>
    ELSE IF ~InstructionsFilter(line) THEN <<Strip(line)>>
    ELSE <<>>

\* the notes branch: the accumulated notes after a line
NotesAppend(old, line) ==
    IF old # <<>> THEN old \o <<" ">> \o Strip(line) ELSE Strip(line)

\* OrDefault with the default never applied
OrDefault_Skipped(value, default) == value

\* 'if not value: value = default' of the finalization
OrDefault(value, default) == IF value = <<>> THEN default ELSE value

----------------------------------------------------------------------------
(* The completion texts the parser is run on *)

L_BLANK == <<>>
L_INGREDIENTS == <<"I","N","G","R","E","D","I","E","N","T","S",":">>
L_RICE == <<"-"," ","2"," ","c","u","p","s"," ","r","i","c","e">>
L_FLOUR == <<"-"," ","a","l","l","-","p","u","r","p","o","s","e"," ","f","l","o","u","r">>
L_INSTRUCTIONS == <<"I","N","S","T","R","U","C","T","I","O","N","S",":">>
L_STEP1 == <<"1","."," ","C","o","o","k"," ","r","i","c","e">>
L_STEP3 == <<"3",".">>
L_COOKING_TIME == <<"C","O","O","K","I","N","G"," ","T","I","M","E",":"," ","1","5"," ","m","i","n","u","t","e","s"," ">>
L_NOTES == <<"N","O","T","E","S",":"," ","A","d","d"," ","s","o","y"," ","s","a","u","c","e">>
L_PLAIN == <<"F","r","i","e","d"," ","R","i","c","e"," ","S","u","p","r","e","m","e">>
L_MD_TITLE == <<"*","*","T","i","t","l","e",":","*","*"," ","N","a","s","i"," ","L","e","m","a","k">>
L_TOTAL_TIME == <<"T","o","t","a","l"," ","c","o","o","k","i","n","g"," ","t","i","m","e",":"," ","2","0">>
L_DIFFICULTY_EMPTY == <<"#","#"," ","D","I","F","F","I","C","U","L","T","Y",":">>

\* the lines a completion text is made of
LinePool == <<L_BLANK, L_INGREDIENTS, L_RICE, L_FLOUR,
              L_INSTRUCTIONS, L_STEP1, L_STEP3, L_COOKING_TIME, L_NOTES,
              L_PLAIN, L_MD_TITLE, L_TOTAL_TIME, L_DIFFICULTY_EMPTY>>

\* the text made of the lines of the pool that f numbers, joined by newlines
TextOf(f) == Join([i \in DOMAIN f |-> LinePool[f[i]]], <<"\n">>)

\* lines of completions that stray from the format of the prompt
L_TITLE == <<"T","I","T","L","E",":"," ","F","r","i","e","d"," ","R","i","c","e">>
L_HYPHENATED == <<"-"," ","N","O","T","E","-","S",":"," ","s","a","l","t">>
L_EXTRA_NOTES == <<"A","d","d","i","t","i","o","n","a","l"," ","n","o","t","e","s",":"," ","S","e","r","v","e"," ","h","o","t">>

\* the lines the texts of the second family are made of: two TITLE: lines
\* that differ, a NOTES: line with words before the marker, and a bulleted
\* line with a hyphen inside a word
StrayPool == <<L_BLANK, L_TITLE, L_MD_TITLE, L_INGREDIENTS, L_INSTRUCTIONS,
               L_NOTES, L_COOKING_TIME, L_DIFFICULTY_EMPTY, L_PLAIN,
               L_HYPHENATED, L_EXTRA_NOTES>>

\* the text of the lines of StrayPool with the given indexes
StrayTextOf(f) == Join([i \in DOMAIN f |-> StrayPool[f[i]]], <<"\n">>)

L_DIFFICULTY == <<"D","I","F","F","I","C","U","L","T","Y",":"," ","E","a","s","y">>

\* The third family of texts: completions made of the six section blocks of
\* the prompt's format, in any order.  The blocks, in the order of the
\* format: the title block ends with a blank line, the ingredients block
\* has one or two bulleted lines, the notes block may run on to a second
\* line
BlocksOf(ingredientLines, notesLines) ==
    <<<<L_TITLE, L_BLANK>>,
      <<L_INGREDIENTS>> \o ingredientLines,
      <<L_INSTRUCTIONS, L_STEP1>>,
      <<L_COOKING_TIME>>,
      <<L_DIFFICULTY>>,
      <<L_NOTES>> \o notesLines>>

\* the orders in which the blocks may come
Orderings ==
    LET n == Len(BlocksOf(<<>>, <<>>))
    IN  {p \in [1..n -> 1..n] : \A i, j \in 1..n : p[i] = p[j] => i = j}

\* the lines of the sequences of lines, one after the other
RECURSIVE Flatten(_)
Flatten(seqs) ==
    IF seqs = <<>> THEN <<>> ELSE Head(seqs) \o Flatten(Tail(seqs))

\* the text of the blocks in the order p, after the preamble
BlockTextOf(preamble, blocks, p) ==
    Join(preamble \o Flatten([i \in DOMAIN p |-> blocks[p[i]]]), <<"\n">>)

----------------------------------------------------------------------------
(* extract_recipe_parts, one action per step of its loop *)

\* no call of the parser is under way
ParserIdle ==
    /\ recipe_text = <<>>
    /\ lines = <<>>
    /\ idx = 0
    /\ title = None
    /\ ingredients = None
    /\ instructions = None
    /\ cooking_time = None
    /\ difficulty = None
    /\ notes = None
    /\ current_section = "None"
    /\ pc = "idle"

ParserInit ==
    /\ \E n \in 0..MaxLines : \E f \in [1..n -> 1..Len(LinePool)] :
            recipe_text = TextOf(f)
    /\ lines = <<>>
    /\ idx = 0
    /\ title = None
    /\ ingredients = None
    /\ instructions = None
    /\ cooking_time = None
    /\ difficulty = None
    /\ notes = None
    /\ current_section = "None"
    /\ pc = "call"

\* extract_recipe_parts is called with a text of the second family
StrayInit ==
    /\ \E n \in 0..MaxLines : \E f \in [1..n -> 1..Len(StrayPool)] :
            recipe_text = StrayTextOf(f)
    /\ lines = <<>>
    /\ idx = 0
    /\ title = None
    /\ ingredients = None
    /\ instructions = None
    /\ cooking_time = None
    /\ difficulty = None
    /\ notes = None
    /\ current_section = "None"
    /\ pc = "call"

\* extract_recipe_parts is called with a text of the third family; the
\* completion may begin with a line before its first block
BlockInit ==
    /\ \E ingredientLines \in {<<L_RICE>>, <<L_RICE, L_FLOUR>>},
          notesLines \in {<<>>, <<L_PLAIN>>},
          preamble \in {<<>>, <<L_PLAIN>>},
          p \in Orderings :
            recipe_text =
                BlockTextOf(preamble, BlocksOf(ingredientLines, notesLines), p)
    /\ lines = <<>>
    /\ idx = 0
    /\ title = None
    /\ ingredients = None
    /\ instructions = None
    /\ cooking_time = None
    /\ difficulty = None
    /\ notes = None
    /\ current_section = "None"
    /\ pc = "call"

\* Normalized with only the first '*' and the first '#' removed
Normalized_FirstOnly(text) ==
    LET RemoveFirst(s, c) ==
            IF \E i \in 1..Len(s) : s[i] = c
              THEN LET i == CHOOSE i \in 1..Len(s) :
                                s[i] = c /\ \A j \in 1..(i - 1) : s[j] # c
                   IN  SubSeq(s, 1, i - 1) \o SubSeq(s, i + 1, Len(s))
              ELSE s
    IN  RemoveFirst(RemoveFirst(text, "*"), "#")

\* the text without its markdown characters
Normalized(text) == Remove(Remove(text, "*"), "#")

\* the statements before the loop: normalization, the initial values of the
\* components, the split into lines
Normalize ==
    /\ pc = "call"
    /\ lines' = Split(Strip(Normalized(recipe_text)), "\n")
    /\ idx' = 1
    /\ title' = <<>>
    /\ ingredients' = <<>>
    /\ instructions' = <<>>
    /\ cooking_time' = <<>>
    /\ difficulty' = <<>>
    /\ notes' = <<>>
    /\ current_section' = "None"
    /\ pc' = "loop"
    /\ recipe_text' = Normalized(recipe_text)
    /\ UNCHANGED <<recommender_defined, promptVars, streamVars, apiVars>>

InLoop == pc = "loop" /\ idx <= Len(lines)

\* line = line.strip()
CurrentLine == Strip(lines[idx])

NextLine ==
    /\ idx' = idx + 1
    /\ UNCHANGED <<recipe_text, lines, pc,
                   recommender_defined, promptVars, streamVars, apiVars>>

\* if not line: continue
BlankLine ==
    /\ InLoop
    /\ CurrentLine = <<>>
    /\ NextLine
    /\ UNCHANGED <<title, ingredients, instructions, cooking_time,
                   difficulty, notes, current_section>>

\* TitleLine that keeps a title already set
TitleLine_FirstWins ==
    /\ InLoop
    /\ CurrentLine # <<>>
    /\ LineKind(CurrentLine) = "title"
    /\ title' = IF title = <<>> THEN StripMarker(CurrentLine, M_TITLE)
                                ELSE title
    /\ NextLine
    /\ UNCHANGED <<ingredients, instructions, cooking_time, difficulty,
                   notes, current_section>>

TitleLine ==
    /\ InLoop
    /\ CurrentLine # <<>>
    /\ LineKind(CurrentLine) = "title"
    /\ title' = StripMarker(CurrentLine, M_TITLE)
    /\ NextLine
    /\ UNCHANGED <<ingredients, instructions, cooking_time, difficulty,
                   notes, current_section>>

IngredientsMarker ==
    /\ InLoop
    /\ CurrentLine # <<>>
    /\ LineKind(CurrentLine) = "ingredients"
    /\ current_section' = "ingredients"
    /\ NextLine
    /\ UNCHANGED <<title, ingredients, instructions, cooking_time,
                   difficulty, notes>>

\* InstructionsMarker that opens the instructions only after the ingredients
InstructionsMarker_AfterIngredients ==
    /\ InLoop
    /\ CurrentLine # <<>>
    /\ LineKind(CurrentLine) = "instructions"
    /\ current_section' = IF current_section = "ingredients"
                            THEN "instructions"
                            ELSE current_section
    /\ NextLine
    /\ UNCHANGED <<title, ingredients, instructions, cooking_time,
                   difficulty, notes>>

InstructionsMarker ==
    /\ InLoop
    /\ CurrentLine # <<>>
    /\ LineKind(CurrentLine) = "instructions"
    /\ current_section' = "instructions"
    /\ NextLine
    /\ UNCHANGED <<title, ingredients, instructions, cooking_time,
                   difficulty, notes>>

\* CookingTimeLine that closes the section that was open
CookingTimeLine_EndsSection ==
    /\ InLoop
    /\ CurrentLine # <<>>
    /\ LineKind(CurrentLine) = "cooking_time"
    /\ cooking_time' = StripMarker(CurrentLine, M_COOKING_TIME)
    /\ current_section' = "None"
    /\ NextLine
    /\ UNCHANGED <<title, ingredients, instructions, difficulty, notes>>

CookingTimeLine ==
    /\ InLoop
    /\ CurrentLine # <<>>
    /\ LineKind(CurrentLine) = "cooking_time"
    /\ cooking_time' = StripMarker(CurrentLine, M_COOKING_TIME)
    /\ NextLine
    /\ UNCHANGED <<title, ingredients, instructions, difficulty, notes,
                   current_section>>

DifficultyLine ==
    /\ InLoop
    /\ CurrentLine # <<>>
    /\ LineKind(CurrentLine) = "difficulty"
    /\ difficulty' = StripMarker(CurrentLine, M_DIFFICULTY)
    /\ NextLine
    /\ UNCHANGED <<title, ingredients, instructions, cooking_time, notes,
                   current_section>>

NotesMarker ==
    /\ InLoop
    /\ CurrentLine # <<>>
    /\ LineKind(CurrentLine) = "notes"
    /\ current_section' = "notes"
    /\ notes' = StripMarker(CurrentLine, M_NOTES)
    /\ NextLine
    /\ UNCHANGED <<title, ingredients, instructions, cooking_time,
                   difficulty>>

Unmarked == InLoop /\ CurrentLine # <<>> /\ LineKind(CurrentLine) = "unmarked"

IngredientLine ==
    /\ current_section = "ingredients"
    /\ Unmarked
    /\ ingredients' = ingredients \o IngredientEntries(CurrentLine)
    /\ NextLine
    /\ UNCHANGED <<title, instructions, cooking_time, difficulty, notes,
                   current_section>>

InstructionLine ==
    /\ current_section = "instructions"
    /\ Unmarked
    /\ instructions' = instructions \o InstructionEntries(CurrentLine)
    /\ NextLine
    /\ UNCHANGED <<title, ingredients, cooking_time, difficulty, notes,
                   current_section>>

NotesLine ==
    /\ current_section = "notes"
    /\ Unmarked
    /\ notes' = NotesAppend(notes, CurrentLine)
    /\ NextLine
    /\ UNCHANGED <<title, ingredients, instructions, cooking_time,
                   difficulty, current_section>>

\* an unmarked line before any section marker falls through every branch
IgnoredLine ==
    /\ current_section = "None"
    /\ Unmarked
    /\ NextLine
    /\ UNCHANGED <<title, ingredients, instructions, cooking_time,
                   difficulty, notes, current_section>>

\* the first non-blank line of ls that is not bulleted, '' when there is none
RECURSIVE FirstNonBulleted(_)
FirstNonBulleted(ls) ==
    IF ls = <<>> THEN <<>>
    ELSE IF Strip(Head(ls)) # <<>> /\ ~StartsWith(Strip(Head(ls)), <<"-">>)
      THEN Strip(Head(ls))
      ELSE FirstNonBulleted(Tail(ls))

\* Finalize with a fallback of the title to the first non-bulleted line
Finalize_TitleFallback ==
    /\ pc = "loop"
    /\ idx > Len(lines)
    /\ title' = OrDefault(title, FirstNonBulleted(lines))
    /\ notes' = OrDefault(notes, DEFAULT_NOTES)
    /\ difficulty' = OrDefault(difficulty, NOT_SPECIFIED)
    /\ cooking_time' = OrDefault(cooking_time, NOT_SPECIFIED)
    /\ pc' = "return"
    /\ UNCHANGED <<recipe_text, lines, idx, ingredients, instructions,
                   current_section,
                   recommender_defined, promptVars, streamVars, apiVars>>

\* the defaults after the loop, and the return
Finalize ==
    /\ pc = "loop"
    /\ idx > Len(lines)
    /\ notes' = OrDefault(notes, DEFAULT_NOTES)
    /\ difficulty' = OrDefault(difficulty, NOT_SPECIFIED)
    /\ cooking_time' = OrDefault(cooking_time, NOT_SPECIFIED)
    /\ pc' = "return"
    /\ UNCHANGED <<recipe_text, lines, idx, title, ingredients, instructions,
                   current_section,
                   recommender_defined, promptVars, streamVars, apiVars>>

extract_recipe_parts ==
    \/ Normalize
    \/ BlankLine
    \/ TitleLine
    \/ IngredientsMarker
    \/ InstructionsMarker
    \/ CookingTimeLine
    \/ DifficultyLine
    \/ NotesMarker
    \/ IngredientLine
    \/ InstructionLine
    \/ NotesLine
    \/ IgnoredLine
    \/ Finalize

\* The loop as a function.  The locals of extract_recipe_parts before the
\* loop
InitialParts ==
    [title |-> <<>>, ingredients |-> <<>>, instructions |-> <<>>,
     cooking_time |-> <<>>, difficulty |-> <<>>, notes |-> <<>>,
     current_section |-> "None"]

\* one pass of the loop body: the locals p after the given line
AfterLine(p, raw) ==
    LET line == Strip(raw)
        kind == LineKind(line)
    IN  IF line = <<>> THEN p
        ELSE IF kind = "title"
          THEN [p EXCEPT !.title = StripMarker(line, M_TITLE)]
        ELSE IF kind = "ingredients"
          THEN [p EXCEPT !.current_section = "ingredients"]
        ELSE IF kind = "instructions"
          THEN [p EXCEPT !.current_section = "instructions"]
        ELSE IF kind = "cooking_time"
          THEN [p EXCEPT !.cooking_time = StripMarker(line, M_COOKING_TIME)]
        ELSE IF kind = "difficulty"
          THEN [p EXCEPT !.difficulty = StripMarker(line, M_DIFFICULTY)]
        ELSE IF kind = "notes"
          THEN [p EXCEPT !.current_section = "notes",
                         !.notes = StripMarker(line, M_NOTES)]
        ELSE IF p.current_section = "ingredients"
          THEN [p EXCEPT !.ingredients = @ \o IngredientEntries(line)]
        ELSE IF p.current_section = "instructions"
          THEN [p EXCEPT !.instructions = @ \o InstructionEntries(line)]
        ELSE IF p.current_section = "notes"
          THEN [p EXCEPT !.notes = NotesAppend(@, line)]
        ELSE p

\* the locals after the lines i.. of ls, from the locals p
RECURSIVE AfterLines(_, _, _)
AfterLines(p, ls, i) ==
    IF i > Len(ls) THEN p ELSE AfterLines(AfterLine(p, ls[i]), ls, i + 1)

\* the record returned for the locals p: the defaults applied
PartsOf(p) ==
    [title |-> p.title,
     ingredients |-> p.ingredients,
     instructions |-> p.instructions,
     cooking_time |-> OrDefault(p.cooking_time, NOT_SPECIFIED),
     difficulty |-> OrDefault(p.difficulty, NOT_SPECIFIED),
     notes |-> OrDefault(p.notes, DEFAULT_NOTES)]

\* the record extract_recipe_parts returns for a text of the given lines
PartsOfLines(ls) == PartsOf(AfterLines(InitialParts, ls, 1))

\* the record extract_recipe_parts returns for a text
PartsOfText(text) == PartsOfLines(Split(Strip(Normalized(text)), "\n"))

\* the record of the call in progress
recipe_data ==
    [title |-> title, ingredients |-> ingredients,
     instructions |-> instructions, cooking_time |-> cooking_time,
     difficulty |-> difficulty, notes |-> notes]

----------------------------------------------------------------------------
(* The streaming calls: get_recipe_stream and
   get_recipe_with_parameters_stream of recommender.py, relayed by the
   generate() of their endpoints in main.py.  The completion task and the
   generator are two coroutines of one event loop: a step of either runs from
   one suspension point to the next. *)

\* the streaming endpoints: /v1/recipe/simple/stream, /v1/recipe/detailed/stream
Streams == {"simple", "detailed"}

\* the k-th fragment with text that the completion of the request s
\* produces: the two requests have completions of their own
Fragment(s, k) == <<IF s = "simple" THEN "t" ELSE "d", DigitChars[k + 1]>>

\* a fragment without text, as the provider sends with the role or the
\* finish reason
EMPTY_FRAGMENT == <<>>

ERROR_PREFIX == <<"E","r","r","o","r",":"," ">>

\* str(e) of the NameError for the unbound module-level recommender
NAME_ERROR == <<"n","a","m","e"," ","'","r","e","c","o","m","m","e","n","d","e","r","'",
                " ","i","s"," ","n","o","t"," ","d","e","f","i","n","e","d">>

\* f"Error: {str(e)}"
ErrorFragment(message) == ERROR_PREFIX \o message

\* the fragments with text among fs, in order
WithText(fs) == SelectSeq(fs, LAMBDA f : f # EMPTY_FRAGMENT)

\* no streaming request has been made
StreamIdle ==
    /\ gen = [s \in Streams |-> "idle"]
    /\ token = [s \in Streams |-> <<>>]
    /\ queue = [s \in Streams |-> <<>>]
    /\ done = [s \in Streams |-> FALSE]
    /\ task = [s \in Streams |-> "none"]
    /\ produced = [s \in Streams |-> <<>>]
    /\ sent = [s \in Streams |-> <<>>]
    /\ client = [s \in Streams |-> "connected"]

\* the module-level 'try: recommender = RecipeRecommender()' of main.py: the
\* ValueError of a missing OPENAI_API_KEY is printed and the name is left
\* unbound
Startup == recommender_defined \in BOOLEAN

StreamInit == Startup /\ StreamIdle

\* 'while not self.queue.empty() or not self.done.is_set()' of
\* callback.aiter(), evaluated where the generator is entered or resumed:
\* it suspends in asyncio.wait, or the loop and both generators end, through
\* the finally that sets callback.done
AfterLoopTest(s, q, d) ==
    IF q # <<>> \/ ~d
      THEN /\ gen' = [gen EXCEPT ![s] = "waiting"]
           /\ done' = [done EXCEPT ![s] = d]
      ELSE /\ gen' = [gen EXCEPT ![s] = "closed"]
           /\ done' = [done EXCEPT ![s] = TRUE]

\* the endpoint returns StreamingResponse(generate()) and the response
\* starts to iterate: with the recommender unbound the NameError is caught
\* by generate(), which yields the error text; otherwise the generator of
\* the recommender makes its callback handler and its task and enters
\* callback.aiter()
StartStream(s) ==
    /\ gen[s] = "idle"
    /\ IF ~recommender_defined
         THEN /\ gen' = [gen EXCEPT ![s] = "yield_error"]
              /\ token' = [token EXCEPT ![s] = ErrorFragment(NAME_ERROR)]
              /\ UNCHANGED <<queue, done, task>>
         ELSE /\ queue' = [queue EXCEPT ![s] = <<>>]
              /\ task' = [task EXCEPT ![s] = "created"]
              /\ AfterLoopTest(s, <<>>, FALSE)
              /\ UNCHANGED token
    /\ UNCHANGED <<produced, sent, client,
                   recommender_defined, promptVars, parserVars, apiVars>>

\* the task starts to run: on_llm_start clears callback.done
TaskStart(s) ==
    /\ task[s] = "created"
    /\ task' = [task EXCEPT ![s] = "running"]
    /\ done' = [done EXCEPT ![s] = FALSE]
    /\ UNCHANGED <<gen, token, queue, produced, sent, client,
                   recommender_defined, promptVars, parserVars, apiVars>>

\* the completion produces a fragment: on_llm_new_token puts it on the
\* queue unless it is empty
TaskToken(s) ==
    /\ task[s] = "running"
    /\ Len(produced[s]) < MaxFragments
    /\ \E f \in {EMPTY_FRAGMENT, Fragment(s, Len(WithText(produced[s])) + 1)} :
          /\ produced' = [produced EXCEPT ![s] = Append(@, f)]
          /\ queue' = [queue EXCEPT ![s] =
                          IF f # EMPTY_FRAGMENT THEN Append(@, f) ELSE @]
    /\ UNCHANGED <<gen, token, done, task, sent, client,
                   recommender_defined, promptVars, parserVars, apiVars>>

\* TaskEnd with one done flag that all the requests share
TaskEnd_SharedDone(s) ==
    /\ task[s] = "running"
    /\ task' = [task EXCEPT ![s] = "finished"]
    /\ done' = [t \in Streams |-> TRUE]
    /\ UNCHANGED <<gen, token, queue, produced, sent, client,
                   recommender_defined, promptVars, parserVars, apiVars>>

\* the completion ends: on_llm_end sets callback.done
TaskEnd(s) ==
    /\ task[s] = "running"
    /\ task' = [task EXCEPT ![s] = "finished"]
    /\ done' = [done EXCEPT ![s] = TRUE]
    /\ UNCHANGED <<gen, token, queue, produced, sent, client,
                   recommender_defined, promptVars, parserVars, apiVars>>

\* the completion fails: on_llm_error sets callback.done, and the exception
\* stays in the task, which nothing awaits
TaskFail(s) ==
    /\ task[s] = "running"
    /\ task' = [task EXCEPT ![s] = "failed"]
    /\ done' = [done EXCEPT ![s] = TRUE]
    /\ UNCHANGED <<gen, token, queue, produced, sent, client,
                   recommender_defined, promptVars, parserVars, apiVars>>

\* asyncio.wait returns and the result taken is a fragment of queue.get():
\* the generators yield it
AiterGet(s) ==
    /\ gen[s] = "waiting"
    /\ queue[s] # <<>>
    /\ token' = [token EXCEPT ![s] = Head(queue[s])]
    /\ queue' = [queue EXCEPT ![s] = Tail(@)]
    /\ gen' = [gen EXCEPT ![s] = "yield_token"]
    /\ UNCHANGED <<done, task, produced, sent, client,
                   recommender_defined, promptVars, parserVars, apiVars>>

\* asyncio.wait returns and the result taken is the True of done.wait(): the
\* loop breaks.  With a fragment on the queue queue.get() has completed as
\* well, both futures are in the set of the completed and done.pop() takes
\* either; the fragment that queue.get() took is then lost.  The generators
\* end, through the finally that sets callback.done
AiterBreak(s) ==
    /\ gen[s] = "waiting"
    /\ done[s]
    /\ queue' = [queue EXCEPT ![s] = IF @ # <<>> THEN Tail(@) ELSE @]
    /\ gen' = [gen EXCEPT ![s] = "closed"]
    /\ UNCHANGED <<token, done, task, produced, sent, client,
                   recommender_defined, promptVars, parserVars, apiVars>>

\* the response passes the yielded fragment to the client and resumes the
\* generator, which tests the loop condition of callback.aiter() again
Deliver(s) ==
    /\ gen[s] = "yield_token"
    /\ client[s] = "connected"
    /\ sent' = [sent EXCEPT ![s] = Append(@, token[s])]
    /\ AfterLoopTest(s, queue[s], done[s])
    /\ UNCHANGED <<token, queue, task, produced, client,
                   recommender_defined, promptVars, parserVars, apiVars>>

\* the response passes the error text of generate() to the client, and
\* generate() ends
DeliverError(s) ==
    /\ gen[s] = "yield_error"
    /\ client[s] = "connected"
    /\ sent' = [sent EXCEPT ![s] = Append(@, token[s])]
    /\ gen' = [gen EXCEPT ![s] = "closed"]
    /\ UNCHANGED <<token, queue, done, task, produced, client,
                   recommender_defined, promptVars, parserVars, apiVars>>

\* the client disconnects and the response closes the generator where it is
\* suspended: GeneratorExit or CancelledError is no Exception, so neither
\* except clause runs; the finally of the recommender's generator sets
\* callback.done.  Nothing cancels the task
Disconnect(s) ==
    /\ client[s] = "connected"
    /\ gen[s] \in {"waiting", "yield_token", "yield_error"}
    /\ client' = [client EXCEPT ![s] = "gone"]
    /\ gen' = [gen EXCEPT ![s] = "closed"]
    /\ done' = [done EXCEPT ![s] = IF gen[s] = "yield_error" THEN @ ELSE TRUE]
    /\ UNCHANGED <<token, queue, task, produced, sent,
                   recommender_defined, promptVars, parserVars, apiVars>>

StreamNext ==
    \E s \in Streams :
        \/ StartStream(s)
        \/ TaskStart(s)
        \/ TaskToken(s)
        \/ TaskEnd(s)
        \/ TaskFail(s)
        \/ AiterGet(s)
        \/ AiterBreak(s)
        \/ Deliver(s)
        \/ DeliverError(s)
        \/ Disconnect(s)

----------------------------------------------------------------------------
(* The endpoints of main.py: a request passes its security dependencies and
   then its handler *)

Endpoints == {"/", "/health", "/v1/recipe/simple", "/v1/recipe/detailed",
              "/v1/recipe/simple/stream", "/v1/recipe/detailed/stream"}

BatchEndpoints == {"/v1/recipe/simple", "/v1/recipe/detailed"}

StreamEndpoints == {"/v1/recipe/simple/stream", "/v1/recipe/detailed/stream"}

\* the configured secret, os.getenv("RECIPE_API_KEY"): not empty, or the
\* module raises before the application exists
RECIPE_API_KEY == "secret-key"

\* the values of the X-Recipe-API-Key header: none, another key, the secret
HeaderValues == {"", "wrong-key", RECIPE_API_KEY}

STATUS_OK == 200
STATUS_FORBIDDEN == 403
STATUS_SERVER_ERROR == 500

NoRequest == [endpoint |-> "", header |-> ""]

ApiIdle ==
    /\ request = NoRequest
    /\ api_pc = "idle"
    /\ log = <<>>

ApiInit == Startup /\ ApiIdle

\* the request is answered: status is 200 or the status of the
\* HTTPException raised, which generic_exception_handler renders; core tells
\* whether a method of the recommender was called, which builds the prompt
\* and calls the LLM
Respond(status, core) ==
    /\ log' = Append(log, [endpoint |-> request.endpoint,
                           header |-> request.header,
                           status |-> status,
                           core |-> core])
    /\ request' = NoRequest
    /\ api_pc' = "idle"
    /\ UNCHANGED <<recommender_defined, promptVars, parserVars, streamVars>>

Receive ==
    /\ api_pc = "idle"
    /\ Len(log) < MaxRequests
    /\ \E e \in Endpoints, h \in HeaderValues :
          request' = [endpoint |-> e, header |-> h]
    /\ api_pc' = "security"
    /\ UNCHANGED <<log,
                   recommender_defined, promptVars, parserVars, streamVars>>

\* the endpoint declares api_key_header, directly or through get_api_key
UsesApiKeyHeader(e) == e # "/"

\* the endpoint declares Depends(get_api_key)
UsesGetApiKey(e) == e = "/health"

\* APIKeyHeader(auto_error=True): a request without the header is refused
RejectNoHeader ==
    /\ api_pc = "security"
    /\ UsesApiKeyHeader(request.endpoint)
    /\ request.header = ""
    /\ Respond(STATUS_FORBIDDEN, FALSE)

\* get_api_key: a header that is not the secret is refused
RejectWrongKey ==
    /\ api_pc = "security"
    /\ UsesGetApiKey(request.endpoint)
    /\ request.header # ""
    /\ request.header # RECIPE_API_KEY
    /\ Respond(STATUS_FORBIDDEN, FALSE)

\* the dependencies of the endpoint are satisfied; the handler is called
Admit ==
    /\ api_pc = "security"
    /\ UsesApiKeyHeader(request.endpoint) => request.header # ""
    /\ UsesGetApiKey(request.endpoint) => request.header = RECIPE_API_KEY
    /\ api_pc' = "handler"
    /\ UNCHANGED <<request, log,
                   recommender_defined, promptVars, parserVars, streamVars>>

\* root and health_check
PlainHandler ==
    /\ api_pc = "handler"
    /\ request.endpoint \in {"/", "/health"}
    /\ Respond(STATUS_OK, FALSE)

\* get_recipe_simple and get_recipe_detailed: the call of the recommender
\* returns the parsed recipe, or raises (the LLM call fails, or the name
\* recommender is unbound) and the except clause raises HTTPException(500)
BatchHandler ==
    /\ api_pc = "handler"
    /\ request.endpoint \in BatchEndpoints
    /\ IF recommender_defined
         THEN \E status \in {STATUS_OK, STATUS_SERVER_ERROR} :
                  Respond(status, TRUE)
         ELSE Respond(STATUS_SERVER_ERROR, FALSE)

\* get_recipe_simple_stream and get_recipe_detailed_stream: the response
\* is a StreamingResponse over generate(), which calls the recommender when
\* it is iterated
StreamHandler ==
    /\ api_pc = "handler"
    /\ request.endpoint \in StreamEndpoints
    /\ Respond(STATUS_OK, recommender_defined)

ApiNext ==
    \/ Receive
    \/ RejectNoHeader
    \/ RejectWrongKey
    \/ Admit
    \/ PlainHandler
    \/ BatchHandler
    \/ StreamHandler

----------------------------------------------------------------------------
(* The context of the detailed prompt: get_recipe_with_parameters and
   get_recipe_with_parameters_stream build it from the fields of the
   DetailedQuery.  An Optional field is a record: some tells whether it is
   other than None, val is its value *)

\* most entries of a list of the query
MaxItems == 2

P_INGREDIENTS == <<"M","a","i","n"," ","I","n","g","r","e","d","i","e","n","t","s"," ","A","v","a","i","l","a","b","l","e",":"," ">>
P_SERVINGS == <<"S","e","r","v","i","n","g","s",":"," ">>
P_DIETARY == <<"D","i","e","t","a","r","y"," ","R","e","s","t","r","i","c","t","i","o","n","s",":"," ">>
P_CUISINE == <<"C","u","i","s","i","n","e"," ","P","r","e","f","e","r","e","n","c","e",":"," ">>
P_COOKING_TIME == <<"M","a","x","i","m","u","m"," ","C","o","o","k","i","n","g"," ","T","i","m","e",":"," ">>
S_MINUTES == <<" ","m","i","n","u","t","e","s">>
COMMA_SPACE == <<",", " ">>
NEWLINE == <<"\n">>

\* the servings written when the query gives none
DEFAULT_SERVINGS == 2

RICE == <<"r","i","c","e">>
EGG == <<"e","g","g">>
HALAL == <<"h","a","l","a","l">>
VEGAN == <<"v","e","g","a","n">>
ASIAN == <<"a","s","i","a","n">>

\* str(n) of an int that is not negative, as the f-string formats it
RECURSIVE Str(_)
Str(n) ==
    IF n < 10 THEN <<DigitChars[n + 1]>>
    ELSE Str(n \div 10) \o <<DigitChars[(n % 10) + 1]>>

\* the lists of at most MaxItems entries of S
Lists(S) == UNION {[1..n -> S] : n \in 0..MaxItems}

\* Optional[T]: None, or one of the values
Optional(values, zero) ==
    {[some |-> FALSE, val |-> zero]} \cup {[some |-> TRUE, val |-> v] : v \in values}

\* the bodies DetailedQuery accepts: the lists may be empty, the numbers 0,
\* the string empty, and every field but ingredients may be null or left out
Queries ==
    [ingredients : Lists({RICE, EGG}),
     servings : Optional({0, 4}, 0),
     dietary_restrictions : Optional(Lists({HALAL, VEGAN}), <<>>),
     cuisine_preference : Optional({<<>>, ASIAN}, <<>>),
     cooking_time : Optional({0, 30}, 0)]

NoQuery == [ingredients |-> <<>>]

\* the truth value Python gives an Optional[int]
TruthyInt(x) == x.some /\ x.val # 0

\* the truth value Python gives an Optional list or str
TruthySeq(x) == x.some /\ x.val # <<>>

\* get_recipe_with_parameters: full_context
ContextBatch(q) ==
    LET ingredients_str == Join(q.ingredients, COMMA_SPACE)
        context_parts ==
            <<P_INGREDIENTS \o ingredients_str,
              P_SERVINGS \o Str(IF TruthyInt(q.servings)
                                  THEN q.servings.val
                                  ELSE DEFAULT_SERVINGS)>>
        dietary ==
            IF TruthySeq(q.dietary_restrictions)
              THEN <<P_DIETARY \o Join(q.dietary_restrictions.val, COMMA_SPACE)>>
              ELSE <<>>
        cuisine ==
            IF TruthySeq(q.cuisine_preference)
              THEN <<P_CUISINE \o q.cuisine_preference.val>>
              ELSE <<>>
        time ==
            IF TruthyInt(q.cooking_time)
              THEN <<P_COOKING_TIME \o Str(q.cooking_time.val) \o S_MINUTES>>
              ELSE <<>>
    IN  Join(context_parts \o dietary \o cuisine \o time, NEWLINE)

\* get_recipe_with_parameters_stream where the line of the cuisine
\* preference is written with "Any" for a preference that is not given
ContextStream_CuisineAny(q) ==
    LET context_parts ==
            <<P_INGREDIENTS \o Join(q.ingredients, COMMA_SPACE),
              P_SERVINGS \o Str(IF TruthyInt(q.servings)
                                  THEN q.servings.val
                                  ELSE DEFAULT_SERVINGS)>>
        dietary ==
            IF TruthySeq(q.dietary_restrictions)
              THEN <<P_DIETARY \o Join(q.dietary_restrictions.val, COMMA_SPACE)>>
              ELSE <<>>
        cuisine ==
            IF TruthySeq(q.cuisine_preference)
              THEN <<P_CUISINE \o q.cuisine_preference.val>>
              ELSE <<P_CUISINE \o <<"A","n","y">>>>
        time ==
            IF TruthyInt(q.cooking_time)
              THEN <<P_COOKING_TIME \o Str(q.cooking_time.val) \o S_MINUTES>>
              ELSE <<>>
    IN  Join(context_parts \o dietary \o cuisine \o time, NEWLINE)

\* get_recipe_with_parameters_stream: full_context
ContextStream(q) ==
    LET context_parts ==
            <<P_INGREDIENTS \o Join(q.ingredients, COMMA_SPACE),
              P_SERVINGS \o Str(IF TruthyInt(q.servings)
                                  THEN q.servings.val
                                  ELSE DEFAULT_SERVINGS)>>
        dietary ==
            IF TruthySeq(q.dietary_restrictions)
              THEN <<P_DIETARY \o Join(q.dietary_restrictions.val, COMMA_SPACE)>>
              ELSE <<>>
        cuisine ==
            IF TruthySeq(q.cuisine_preference)
              THEN <<P_CUISINE \o q.cuisine_preference.val>>
              ELSE <<>>
        time ==
            IF TruthyInt(q.cooking_time)
              THEN <<P_COOKING_TIME \o Str(q.cooking_time.val) \o S_MINUTES>>
              ELSE <<>>
    IN  Join(context_parts \o dietary \o cuisine \o time, NEWLINE)

PromptIdle ==
    /\ query = NoQuery
    /\ call = "none"
    /\ full_context = None
    /\ prompt_pc = "idle"

\* a detailed request has been admitted: the batch or the streaming endpoint
\* is about to call the recommender with the fields of the query
PromptInit ==
    /\ query \in Queries
    /\ call \in {"batch", "stream"}
    /\ full_context = None
    /\ prompt_pc = "call"

\* the batch call builds the context and invokes the chain with it
get_recipe_with_parameters ==
    /\ prompt_pc = "call"
    /\ call = "batch"
    /\ full_context' = ContextBatch(query)
    /\ prompt_pc' = "invoke"
    /\ UNCHANGED <<query, call, recommender_defined, parserVars, streamVars,
                   apiVars>>

\* the streaming call builds the context, formats the prompt with it and
\* creates the task of the completion
get_recipe_with_parameters_stream ==
    /\ prompt_pc = "call"
    /\ call = "stream"
    /\ full_context' = ContextStream(query)
    /\ prompt_pc' = "invoke"
    /\ UNCHANGED <<query, call, recommender_defined, parserVars, streamVars,
                   apiVars>>

PromptNext ==
    \/ get_recipe_with_parameters
    \/ get_recipe_with_parameters_stream

----------------------------------------------------------------------------
(* Properties of extract_recipe_parts *)

Returned == pc = "return"

Markers == {M_TITLE, M_INGREDIENTS, M_INSTRUCTIONS, M_COOKING_TIME,
            M_DIFFICULTY, M_NOTES}

NoLineHas(marker) == \A i \in 1..Len(lines) : ~HasMarker(lines[i], marker)

\* the last line of the text that holds the marker is the marker alone
LastIsBare(marker) ==
    /\ ~NoLineHas(marker)
    /\ LET i == CHOOSE i \in 1..Len(lines) :
                    /\ HasMarker(lines[i], marker)
                    /\ \A j \in (i + 1)..Len(lines) : ~HasMarker(lines[j], marker)
       IN  Upper(Strip(lines[i])) = marker

Rank(kind) ==
    CASE kind = "title" -> 1
      [] kind = "ingredients" -> 2
      [] kind = "instructions" -> 3
      [] kind = "cooking_time" -> 4
      [] kind = "difficulty" -> 5
      [] kind = "notes" -> 6
      [] OTHER -> 0

\* the sections of the text come in the order of the prompt's format, each
\* at most once
Canonical(ls) ==
    \A i, j \in 1..Len(ls) :
        (i < j /\ Rank(LineKind(Strip(ls[i]))) > 0
               /\ Rank(LineKind(Strip(ls[j]))) > 0)
            => Rank(LineKind(Strip(ls[i]))) < Rank(LineKind(Strip(ls[j])))

\* line i is a non-blank line without a marker
IsUnmarked(ls, i) ==
    Strip(ls[i]) # <<>> /\ LineKind(Strip(ls[i])) = "unmarked"

\* line i lies between a line of the given kind and the next marker line
InRange(ls, i, kind) ==
    \E k \in 1..(i - 1) :
        /\ LineKind(Strip(ls[k])) = kind
        /\ \A j \in (k + 1)..i : Strip(ls[j]) = <<>> \/ IsUnmarked(ls, j)

\* a bulleted line without its leading bullet and surrounding whitespace
Unbulleted(line) == Strip(Tail(line))

\* a numbered line without its "<number>." prefix, any other line as it is
Unnumbered(line) ==
    LET d == LeadingDigits(line)
    IN  IF d >= 1 /\ Len(line) >= d + 1 /\ line[d + 1] = "."
          THEN Strip(SubSeq(line, d + 2, Len(line)))
          ELSE line

\* the entries the claims expect of the unmarked lines of ls from line i on
\* that lie in the section of the given kind, in order
RECURSIVE EntriesFrom(_, _, _)
EntriesFrom(ls, i, kind) ==
    IF i > Len(ls) THEN <<>>
    ELSE (IF IsUnmarked(ls, i) /\ InRange(ls, i, kind)
            THEN <<IF kind = "ingredients" THEN Unbulleted(Strip(ls[i]))
                                           ELSE Unnumbered(Strip(ls[i]))>>
            ELSE <<>>)
         \o EntriesFrom(ls, i + 1, kind)

\* C1: for every text the loop of the call stays within the lines of the
\* text and ends in the return, and the returned record has strings for
\* title, cooking_time, difficulty and notes and lists of strings for
\* ingredients and instructions; no field is None
C1_TotalRecord ==
    /\ pc \in {"call", "loop", "return"}
    /\ pc = "loop" => idx \in 1..(Len(lines) + 1)
    /\ Returned =>
        /\ idx = Len(lines) + 1
        /\ IsStr(title) /\ IsStr(cooking_time)
        /\ IsStr(difficulty) /\ IsStr(notes)
        /\ IsStrList(ingredients) /\ IsStrList(instructions)

\* the empty text has been parsed, and so has a text of stray markdown only
C1_Witness ==
    /\ Returned
    /\ lines = <<<<>>>>
    /\ title = <<>> /\ ingredients = <<>> /\ instructions = <<>>

\* C3 (as claimed): in a text in canonical order whose unmarked lines are
\* all bulleted lines of the ingredients section, ingredients is exactly
\* these lines, in order, each without its leading bullet and surrounding
\* whitespace and otherwise unchanged
C3_BulletOnlyStripped ==
    (/\ Returned
     /\ Canonical(lines)
     /\ \A i \in 1..Len(lines) :
            IsUnmarked(lines, i) =>
                /\ InRange(lines, i, "ingredients")
                /\ StartsWith(Strip(lines[i]), <<"-">>))
    => ingredients = EntriesFrom(lines, 1, "ingredients")

\* C4 (as claimed): in a text in canonical order whose unmarked lines are
\* all lines of the instructions section, instructions is exactly these
\* lines, in order, a line starting with "<number>." without that prefix,
\* also where nothing follows the prefix
C4_NumberingRemoved ==
    (/\ Returned
     /\ Canonical(lines)
     /\ \A i \in 1..Len(lines) :
            IsUnmarked(lines, i) => InRange(lines, i, "instructions"))
    => instructions = EntriesFrom(lines, 1, "instructions")

\* C5: in the returned record notes is "No additional notes." when no line
\* has NOTES:, difficulty and cooking_time are "Not specified" when no line
\* has their marker or the last line with it is the marker alone, and none
\* of the three is the empty string
C5_Defaults ==
    Returned =>
        /\ NoLineHas(M_NOTES) => notes = DEFAULT_NOTES
        /\ NoLineHas(M_DIFFICULTY) => difficulty = NOT_SPECIFIED
        /\ NoLineHas(M_COOKING_TIME) => cooking_time = NOT_SPECIFIED
        /\ (LastIsBare(M_DIFFICULTY) /\ NoLineHas(M_TITLE))
                => difficulty = NOT_SPECIFIED
        /\ notes # <<>> /\ difficulty # <<>> /\ cooking_time # <<>>

\* a text with a bare DIFFICULTY: line and no NOTES: line has been parsed
C5_Witness ==
    /\ Returned
    /\ LastIsBare(M_DIFFICULTY) /\ difficulty = NOT_SPECIFIED
    /\ NoLineHas(M_NOTES) /\ notes = DEFAULT_NOTES
    /\ NoLineHas(M_COOKING_TIME) /\ cooking_time = NOT_SPECIFIED

\* C9 (as claimed): for a text without any marker the title is the first
\* non-bulleted line of the text
C9_TitleFallback ==
    (Returned /\ \A m \in Markers : NoLineHas(m))
        => title = FirstNonBulleted(lines)

\* C9 (amended): without a TITLE: line the title is the empty string, and
\* for the text "Fried Rice Supreme" every other field has its default
C9_NoTitleNoFallback ==
    /\ (Returned /\ NoLineHas(M_TITLE)) => title = <<>>
    /\ (Returned /\ lines = <<L_PLAIN>>) =>
            /\ ingredients = <<>> /\ instructions = <<>>
            /\ cooking_time = NOT_SPECIFIED /\ difficulty = NOT_SPECIFIED
            /\ notes = DEFAULT_NOTES

\* the text "Fried Rice Supreme" has been parsed
C9_Witness == Returned /\ lines = <<L_PLAIN>> /\ title = <<>>

\* C10 (as claimed): title, cooking_time and difficulty never hold their own
\* marker, and "COOKING TIME: 15 minutes" gives "15 minutes"
C10_MarkerStripped ==
    pc \in {"loop", "return"} =>
        /\ ~HasMarker(title, M_TITLE)
        /\ ~HasMarker(cooking_time, M_COOKING_TIME)
        /\ ~HasMarker(difficulty, M_DIFFICULTY)
        /\ (Returned /\ lines = <<Strip(L_COOKING_TIME)>>)
                => cooking_time = <<"1","5"," ","m","i","n","u","t","e","s">>

\* every call returns the record that the loop as a function gives for the
\* lines of its text
ReturnsPartsOfLines == Returned => recipe_data = PartsOfLines(lines)

\* C13: removing '*' and '#' from the text of a call a second time changes
\* nothing, and the record the call returns for a text is the record
\* extract_recipe_parts gives for the normalized form of that text (which
\* is what recipe_text holds once the call has normalized it)
C13_NormalizeIdempotent ==
    /\ pc = "call"
            => Normalized(Normalized(recipe_text)) = Normalized(recipe_text)
    /\ pc \in {"loop", "return"} => Normalized(recipe_text) = recipe_text
    /\ Returned => recipe_data = PartsOfText(recipe_text)

\* a text with markdown around its title marker has been parsed: the text
\* the call was given held '*', and the title is the one behind the marker
C13_Witness ==
    /\ Returned
    /\ \E i \in 1..Len(lines) : lines[i] = Normalized(L_MD_TITLE)
    /\ Normalized(L_MD_TITLE) # L_MD_TITLE
    /\ title = <<"N","a","s","i"," ","L","e","m","a","k">>


\* the kinds of the lines that hold one field and open no section
SingleLineKinds == {"title", "cooking_time", "difficulty"}

\* line i of ls is a TITLE:, COOKING TIME: or DIFFICULTY: line
IsSingleLine(ls, i) ==
    Strip(ls[i]) # <<>> /\ LineKind(Strip(ls[i])) \in SingleLineKinds

\* ls without its line i
WithoutLine(ls, i) == SubSeq(ls, 1, i - 1) \o SubSeq(ls, i + 1, Len(ls))

\* the fields a line of the given kind does not own
OtherFields(kind) ==
    {"title", "ingredients", "instructions", "cooking_time", "difficulty",
     "notes"} \ {kind}

\* C14: a TITLE:, COOKING TIME: or DIFFICULTY: line leaves the section
\* cursor as the lines before it left it, and the record returned for the
\* text has, in every field but the one of that line, what it has for the
\* text without that line: ingredients, instructions and notes are routed
\* as if the line were absent
C14_SingleLineFrame ==
    /\ (pc = "loop" /\ idx > 1 /\ IsSingleLine(lines, idx - 1))
            => current_section =
                 AfterLines(InitialParts, SubSeq(lines, 1, idx - 2), 1)
                    .current_section
    /\ Returned =>
          \A i \in 1..Len(lines) :
              IsSingleLine(lines, i) =>
                  \A f \in OtherFields(LineKind(Strip(lines[i]))) :
                      recipe_data[f] = PartsOfLines(WithoutLine(lines, i))[f]

\* a text has been parsed that opens the ingredients, has a COOKING TIME: or
\* DIFFICULTY: line next and an ingredient after it, which was stored
C14_Witness ==
    /\ Returned
    /\ Len(lines) = 3
    /\ LineKind(Strip(lines[1])) = "ingredients"
    /\ IsSingleLine(lines, 2)
    /\ IsUnmarked(lines, 3)
    /\ Len(ingredients) = 1
    /\ cooking_time # NOT_SPECIFIED


\* C15 (as claimed): after parsing, no entry of ingredients and no entry of
\* instructions contains a section marker, whatever the case of its letters
C15_NoMarkerInEntries ==
    Returned =>
        /\ \A i \in 1..Len(ingredients) :
              \A m \in Markers : ~HasMarker(ingredients[i], m)
        /\ \A i \in 1..Len(instructions) :
              \A m \in Markers : ~HasMarker(instructions[i], m)

\* the text that follows the first occurrence of the marker on the line
AfterMarker(line, marker) ==
    LET at(i) == \A j \in 1..Len(marker) : Upper(line)[i + j - 1] = marker[j]
        first == CHOOSE i \in 1..(Len(line) - Len(marker) + 1) :
                    at(i) /\ \A k \in 1..(i - 1) : ~at(k)
    IN  Strip(SubSeq(line, first + Len(marker), Len(line)))

\* the non-blank unmarked lines of ls from line j on, up to the next
\* INGREDIENTS: or INSTRUCTIONS: line
RECURSIVE ContinuationFrom(_, _)
ContinuationFrom(ls, j) ==
    IF j > Len(ls) THEN <<>>
    ELSE IF LineKind(Strip(ls[j])) \in {"ingredients", "instructions"}
      THEN <<>>
    ELSE (IF IsUnmarked(ls, j) THEN <<Strip(ls[j])>> ELSE <<>>)
         \o ContinuationFrom(ls, j + 1)

\* the parts that are not empty
NonEmpty(parts) == SelectSeq(parts, LAMBDA x : x # <<>>)

\* the notes the claim gives a text whose NOTES: line is line i
NotesDue(ls, i) ==
    Join(NonEmpty(<<AfterMarker(Strip(ls[i]), M_NOTES)>>
                  \o ContinuationFrom(ls, i + 1)), <<" ">>)

\* C19 (as claimed): in a text with exactly one NOTES: line, notes is the
\* text after the marker on that line followed by every later non-blank
\* unmarked line up to the next INGREDIENTS: or INSTRUCTIONS: line, in
\* order, joined by single spaces (the default where that is empty)
C19_NotesCollected ==
    Returned =>
        \A i \in 1..Len(lines) :
            (/\ LineKind(Strip(lines[i])) = "notes"
             /\ \A j \in 1..Len(lines) : HasMarker(lines[j], M_NOTES) => j = i)
            => notes = OrDefault(NotesDue(lines, i), DEFAULT_NOTES)

\* the TITLE: lines of the text
TitleLines == {i \in 1..Len(lines) : LineKind(Strip(lines[i])) = "title"}

\* C20: when the text has TITLE: lines the title returned is the title of
\* the last of them, the one extract_recipe_parts returns for that line
\* alone, whatever lies between them
C20_LastTitleWins ==
    (Returned /\ TitleLines # {}) =>
        LET last == CHOOSE i \in TitleLines : \A j \in TitleLines : j <= i
        IN  title = PartsOfLines(<<lines[last]>>).title

\* a text with two TITLE: lines that differ and a section marker between
\* them has been parsed, and the title is the one of the second line
C20_Witness ==
    /\ Returned
    /\ lines = <<L_TITLE, L_INGREDIENTS, Normalized(L_MD_TITLE)>>
    /\ title = <<"N","a","s","i"," ","L","e","m","a","k">>
    /\ PartsOfLines(<<L_TITLE>>).title # title


\* line i of ls is a marker line
IsMarkerLine(ls, i) == Rank(LineKind(Strip(ls[i]))) > 0

\* the text is made of the six section blocks, each exactly once: its first
\* line is a marker line and every kind of marker line comes once
SixBlocks(ls) ==
    /\ ls # <<>> /\ IsMarkerLine(ls, 1)
    /\ \A r \in 1..Cardinality(Markers) :
          Cardinality({i \in 1..Len(ls) :
                          Rank(LineKind(Strip(ls[i]))) = r}) = 1

\* the block of ls whose marker line has the rank r: that line and the lines
\* after it up to the next marker line
BlockOfRank(ls, r) ==
    LET i == CHOOSE i \in 1..Len(ls) : Rank(LineKind(Strip(ls[i]))) = r
        after == {j \in (i + 1)..Len(ls) : IsMarkerLine(ls, j)}
        end == IF after = {} THEN Len(ls)
               ELSE (CHOOSE j \in after : \A k \in after : j <= k) - 1
    IN  SubSeq(ls, i, end)

\* the blocks of ls in the order of the prompt's format
CanonicalOrder(ls) ==
    Flatten([r \in 1..Cardinality(Markers) |-> BlockOfRank(ls, r)])

\* C18: for a text made of the six section blocks, each once, in any order,
\* the record returned is the record extract_recipe_parts returns for the
\* same blocks in the order of the format
C18_OrderInsensitive ==
    (Returned /\ SixBlocks(lines))
        => recipe_data = PartsOfLines(CanonicalOrder(lines))

\* a text whose blocks come in another order than the format's has been
\* parsed: the notes block, of two lines, comes first and the title block
\* last, and every field has the value of its block
C18_Witness ==
    /\ Returned
    /\ SixBlocks(lines)
    /\ CanonicalOrder(lines) # lines
    /\ LineKind(Strip(lines[1])) = "notes"
    /\ LineKind(Strip(lines[Len(lines)])) = "title"
    /\ Len(ingredients) = 2
    /\ Len(instructions) = 1
    /\ notes = SubSeq(L_NOTES, Len(M_NOTES) + 2, Len(L_NOTES))
                 \o <<" ">> \o L_PLAIN


----------------------------------------------------------------------------
(* Properties of the endpoints and of the streaming calls *)

AuthenticatedEndpoints == {"/health"} \cup BatchEndpoints \cup StreamEndpoints

\* C2 (as claimed): a request to an authenticated endpoint with a header
\* that is present and is not the secret is refused with status 403, and no
\* method of the recommender is called for it
C2_WrongKeyRejected ==
    \A i \in 1..Len(log) :
        (/\ log[i].endpoint \in AuthenticatedEndpoints
         /\ log[i].header # ""
         /\ log[i].header # RECIPE_API_KEY)
        => (log[i].status = STATUS_FORBIDDEN /\ ~log[i].core)

\* the stream has ended with the client still connected
Ended(s) == gen[s] = "closed" /\ client[s] = "connected"

\* C6 (as claimed): when the completion has failed after producing
\* fragments, and every fragment it produced has reached the client, the
\* stream does not end before the client has received, after them, one
\* fragment that begins with "Error: "
C6_ErrorFragmentSent ==
    \A s \in Streams :
        (/\ Ended(s)
         /\ task[s] = "failed"
         /\ WithText(produced[s]) # <<>>
         /\ Len(sent[s]) >= Len(WithText(produced[s])))
        => /\ Len(sent[s]) = Len(WithText(produced[s])) + 1
           /\ SubSeq(sent[s], 1, Len(sent[s]) - 1) = WithText(produced[s])
           /\ StartsWith(sent[s][Len(sent[s])], ERROR_PREFIX)

IsPrefix(a, b) == Len(a) <= Len(b) /\ SubSeq(b, 1, Len(a)) = a

\* C7 (as claimed): while the completion has not failed, the fragments the
\* client has received are a prefix of the fragments with text that the
\* completion has produced, and they are all of them once it has finished
\* and the stream has ended
C7_VerbatimRelay ==
    \A s \in Streams :
        /\ task[s] \in {"created", "running", "finished"}
                => IsPrefix(sent[s], WithText(produced[s]))
        /\ (Ended(s) /\ task[s] = "finished")
                => sent[s] = WithText(produced[s])

\* C8 (as claimed): once the client has disconnected the generator is
\* closed, and the task of the completion is not left created or running
C8_TaskReleased ==
    \A s \in Streams :
        client[s] = "gone"
            => (gen[s] = "closed" /\ task[s] \notin {"created", "running"})

\* C11 (as claimed): no request is handled while the recommender is not
\* initialised: whenever a request is in its handler, or a handler has
\* answered one, the name recommender is bound
C11_ConfigErrorFatal ==
    (\/ api_pc = "handler"
     \/ \E i \in 1..Len(log) : log[i].status # STATUS_FORBIDDEN)
        => recommender_defined

\* C16 (as claimed): when a stream has ended, with the client still
\* connected, after its completion finished or failed, the fragments that
\* were queued have been delivered: the queue is empty and every fragment
\* with text that the completion produced has reached the client
C16_QueueDrained ==
    \A s \in Streams :
        (Ended(s) /\ task[s] \in {"finished", "failed"})
            => /\ queue[s] = <<>>
               /\ IsPrefix(WithText(produced[s]), sent[s])

\* the part of C16 that holds: a stream that has been started is closed in
\* the end, whatever the interleaving of the task and the relay
StreamEventuallyEnds ==
    \A s \in Streams : (gen[s] # "idle") ~> (gen[s] = "closed")

\* the fragments of s
FragmentsOf(fs) == {fs[i] : i \in 1..Len(fs)}

\* C17: with the two streaming requests in progress at once, what a stream
\* holds on its queue, yields and has delivered is a fragment its own
\* completion produced (or the error text of its own generate()), and a
\* stream ends, with its client connected, only after its own completion
\* has finished or failed (or with the error text, the recommender unbound)
C17_StreamsIsolated ==
    \A s \in Streams :
        /\ FragmentsOf(queue[s]) \subseteq FragmentsOf(produced[s])
        /\ gen[s] = "yield_token" => token[s] \in FragmentsOf(produced[s])
        /\ FragmentsOf(sent[s]) \subseteq
              FragmentsOf(produced[s]) \cup {ErrorFragment(NAME_ERROR)}
        /\ Ended(s) => (task[s] \in {"finished", "failed"}
                        \/ ~recommender_defined)
        /\ \A t \in Streams \ {s} :
              FragmentsOf(sent[s]) \cap FragmentsOf(produced[t]) = {}

\* both streams are in progress, each client has received a fragment, and
\* one completion has ended while the other is still running and its
\* stream still open
C17_Witness ==
    /\ sent["simple"] # <<>>
    /\ sent["detailed"] # <<>>
    /\ task["simple"] = "finished"
    /\ task["detailed"] = "running"
    /\ gen["detailed"] = "waiting"
    /\ client["detailed"] = "connected"

----------------------------------------------------------------------------
(* Properties of the context of the detailed prompt *)

NONE_SPECIFIED == <<"N","o","n","e"," ","s","p","e","c","i","f","i","e","d">>
ANY == <<"A","n","y">>

\* the lines of the context that has been built
ContextLines == Split(full_context, "\n")

\* what the line of the servings says: the servings of the query, 2 for none
ServingsLine ==
    P_SERVINGS \o Str(IF query.servings.some /\ query.servings.val > 0
                        THEN query.servings.val ELSE DEFAULT_SERVINGS)

\* C12 (as claimed): the context has the five lines of the constraints in
\* the order ingredients, servings, dietary restrictions, cuisine
\* preference, cooking time, and the line of an optional constraint the
\* query leaves out says "None specified", "Any" and "Not specified"
C12_PlaceholdersWritten ==
    prompt_pc = "invoke" =>
        /\ Len(ContextLines) = 5
        /\ StartsWith(ContextLines[1], P_INGREDIENTS)
        /\ ContextLines[2] = ServingsLine
        /\ StartsWith(ContextLines[3], P_DIETARY)
        /\ StartsWith(ContextLines[4], P_CUISINE)
        /\ StartsWith(ContextLines[5], P_COOKING_TIME)
        /\ ~query.dietary_restrictions.some
                => ContextLines[3] = P_DIETARY \o NONE_SPECIFIED
        /\ ~query.cuisine_preference.some
                => ContextLines[4] = P_CUISINE \o ANY
        /\ ~query.cooking_time.some
                => ContextLines[5] = P_COOKING_TIME \o NOT_SPECIFIED

\* the labels of the lines the context must have for the query, in order:
\* an optional constraint has its line where it is given and is not empty
\* or 0
LabelsDue ==
    <<P_INGREDIENTS, P_SERVINGS>>
    \o (IF query.dietary_restrictions.some
           /\ Len(query.dietary_restrictions.val) > 0
          THEN <<P_DIETARY>> ELSE <<>>)
    \o (IF query.cuisine_preference.some
           /\ Len(query.cuisine_preference.val) > 0
          THEN <<P_CUISINE>> ELSE <<>>)
    \o (IF query.cooking_time.some /\ query.cooking_time.val > 0
          THEN <<P_COOKING_TIME>> ELSE <<>>)

\* what follows the label on the line of that label
ValueDue(label) ==
    IF label = P_INGREDIENTS THEN Join(query.ingredients, COMMA_SPACE)
    ELSE IF label = P_SERVINGS
      THEN SubSeq(ServingsLine, Len(P_SERVINGS) + 1, Len(ServingsLine))
    ELSE IF label = P_DIETARY
      THEN Join(query.dietary_restrictions.val, COMMA_SPACE)
    ELSE IF label = P_CUISINE THEN query.cuisine_preference.val
    ELSE Str(query.cooking_time.val) \o S_MINUTES

\* C12 (amended): the context always has the lines of the ingredients and of
\* the servings, then in the order dietary restrictions, cuisine preference,
\* cooking time one line for each optional constraint that is given and is
\* not empty or 0, each line its label and its value; the line of a
\* constraint left out is omitted and no placeholder is written; the batch
\* and the streaming call build the same context
C12_AbsentOmitted ==
    prompt_pc = "invoke" =>
        /\ Len(ContextLines) = Len(LabelsDue)
        /\ \A i \in 1..Len(LabelsDue) :
              ContextLines[i] = LabelsDue[i] \o ValueDue(LabelsDue[i])
        /\ \A i \in 1..Len(ContextLines) :
              /\ ~Contains(ContextLines[i], NONE_SPECIFIED)
              /\ ~Contains(ContextLines[i], ANY)
              /\ ~Contains(ContextLines[i], NOT_SPECIFIED)
        /\ ContextBatch(query) = ContextStream(query)

\* the context of a query that gives the cooking time and leaves the dietary
\* restrictions and the cuisine preference out has been built by the
\* streaming call: it has three lines
C12_Witness ==
    /\ prompt_pc = "invoke"
    /\ call = "stream"
    /\ ~query.dietary_restrictions.some
    /\ ~query.cuisine_preference.some
    /\ query.cooking_time.some /\ query.cooking_time.val = 30
    /\ Len(ContextLines) = 3

----------------------------------------------------------------------------
(* The specifications: the parser run on every text, the streaming calls,
   and the endpoints *)

Init ==
    ParserInit /\ recommender_defined = TRUE /\ StreamIdle /\ ApiIdle
    /\ PromptIdle

Next == extract_recipe_parts

Spec == Init /\ [][Next]_vars

StraySpecInit ==
    StrayInit /\ recommender_defined = TRUE /\ StreamIdle /\ ApiIdle
    /\ PromptIdle

StraySpec == StraySpecInit /\ [][Next]_vars

BlockSpecInit ==
    BlockInit /\ recommender_defined = TRUE /\ StreamIdle /\ ApiIdle
    /\ PromptIdle

BlockSpec == BlockSpecInit /\ [][Next]_vars

StreamSpecInit == StreamInit /\ ParserIdle /\ ApiIdle /\ PromptIdle

StreamSpec == StreamSpecInit /\ [][StreamNext]_vars

\* the event loop runs every coroutine that is ready, the provider ends or
\* fails every completion it has begun, and a connected client takes what
\* is sent to it; whether the client disconnects is left open
StreamFairness ==
    \A s \in Streams :
        /\ WF_vars(StartStream(s))
        /\ WF_vars(TaskStart(s))
        /\ WF_vars(TaskEnd(s) \/ TaskFail(s))
        /\ WF_vars(AiterGet(s) \/ AiterBreak(s))
        /\ WF_vars(Deliver(s))
        /\ WF_vars(DeliverError(s))

FairStreamSpec == StreamSpec /\ StreamFairness

ApiSpecInit == ApiInit /\ ParserIdle /\ StreamIdle /\ PromptIdle

ApiSpec == ApiSpecInit /\ [][ApiNext]_vars

PromptSpecInit ==
    PromptInit /\ recommender_defined = TRUE /\ ParserIdle /\ StreamIdle
    /\ ApiIdle

PromptSpec == PromptSpecInit /\ [][PromptNext]_vars

====
